---- MODULE Spec2Model ----
(***************************************************************************)
(* Model of pdfimages.utils.config.Configuration: the class-level          *)
(* DEFAULT_CONFIG dictionary, Configuration instances and the operations   *)
(* __init__, load_from_file, merge_config, validate, get, set,             *)
(* get_default_config_path and load_default.                               *)
(*                                                                         *)
(* Python dictionaries are mutable objects handled by reference, so the    *)
(* model keeps a heap of dict objects.  A value is a tagged record: null,  *)
(* bool, num, str, seq (a list, never mutated by the code), map (a dict    *)
(* literal handed in by a caller or parsed from a file) or ref (a dict     *)
(* object living on the heap).  Numbers are kept in hundredths so that the *)
(* floats of the defaults (1.0, 0.95) and of the tests (1.5) are exact.    *)
(***************************************************************************)
EXTENDS Integers, Sequences, FiniteSets, TLC

VARIABLES heap, inst, last, steps

vars == <<heap, inst, last, steps>>

\* Number of operations in one run of the program that the model explores.
MaxSteps == 2

\* The names a caller has for Configuration objects.
Insts == {"A", "B"}

-----------------------------------------------------------------------------
(* The value model *)

Null == [tag |-> "null"]
Bool(b) == [tag |-> "bool", v |-> b]
Num(n) == [tag |-> "num", v |-> n]
Whole(n) == Num(n * 100)
Str(s) == [tag |-> "str", v |-> s]
List(q) == [tag |-> "seq", v |-> q]
Map(f) == [tag |-> "map", v |-> f]
Ref(i) == [tag |-> "ref", v |-> i]

EmptyDict == [k \in {} |-> Null]

\* d[k] = x on a dict value d
SetKey(d, k, x) == [y \in DOMAIN d \cup {k} |-> IF y = k THEN x ELSE d[y]]

\* Python truthiness, as used by "if config_dict:" and "if file_config:"
Truthy(x) ==
    CASE x.tag = "null" -> FALSE
      [] x.tag = "bool" -> x.v
      [] x.tag = "num" -> x.v # 0
      [] x.tag = "str" -> x.v # ""
      [] x.tag = "seq" -> Len(x.v) > 0
      [] x.tag = "map" -> DOMAIN x.v # {}
      [] x.tag = "ref" -> TRUE

\* isinstance(x, str), isinstance(x, bool), isinstance(x, list)
IsStr(x) == x.tag = "str"
IsBool(x) == x.tag = "bool"
IsList(x) == x.tag = "seq"
\* isinstance(x, (int, float)): bool is a subclass of int
IsIntOrFloat(x) == x.tag \in {"num", "bool"}
\* the numeric value of an int, float or bool, in hundredths
NumVal(x) == IF x.tag = "bool" THEN (IF x.v THEN 100 ELSE 0) ELSE x.v
\* x in [list of str]: list membership compares with ==
InStrList(x, S) == x.tag = "str" /\ x.v \in S

-----------------------------------------------------------------------------
(* The heap of dict objects *)

\* isinstance(x, dict) for a value held in a heap dict
IsDict(x) == x.tag = "ref"

\* heap after obj[k] = x on heap object t
SetItem(h, t, k, x) == [h EXCEPT ![t] = SetKey(h[t], k, x)]

\* A dict literal of a caller (or of a parsed file) becomes heap objects when
\* a reference to it is stored; scalars and lists are stored as they are.
RECURSIVE Intern(_, _)
RECURSIVE InternItems(_, _, _, _)
InternItems(h, f, ks, d) ==
    IF ks = {} THEN [h |-> h, d |-> d]
    ELSE LET k == CHOOSE x \in ks : TRUE
             r == Intern(h, f[k])
         IN InternItems(r.h, f, ks \ {k}, SetKey(d, k, r.val))

Intern(h, x) ==
    IF x.tag = "map"
    THEN LET r == InternItems(h, x.v, DOMAIN x.v, EmptyDict)
         IN [h |-> Append(r.h, r.d), val |-> Ref(Len(r.h) + 1)]
    ELSE [h |-> h, val |-> x]

\* The tree a heap value stands for
RECURSIVE Tree(_, _)
Tree(h, x) ==
    IF x.tag = "ref"
    THEN Map([k \in DOMAIN h[x.v] |-> Tree(h, h[x.v][k])])
    ELSE x

-----------------------------------------------------------------------------
(* Configuration.DEFAULT_CONFIG *)

DefaultOutput ==
    [directory |-> Str("extracted_images"),
     maintain_structure |-> Bool(TRUE),
     format |-> Str("png"),
     naming_pattern |-> Str("page_{page:03d}_{index:03d}")]

DefaultProcessing ==
    [min_width |-> Whole(100),
     min_height |-> Whole(100),
     max_width |-> Null,
     max_height |-> Null,
     quality |-> Whole(90),
     scaling |-> Whole(1),
     dpi |-> Whole(300),
     deduplicate |-> Bool(TRUE),
     similarity_threshold |-> Num(95)]

DefaultFilters ==
    [include_types |-> List(<<Str("images"), Str("forms"), Str("all")>>),
     exclude_types |-> List(<<>>),
     min_size_bytes |-> Whole(1024),
     max_size_bytes |-> Null]

DefaultLogging ==
    [level |-> Str("INFO"),
     file |-> Null,
     console |-> Bool(TRUE)]

\* The tree written in the class body
DEFAULT_CONFIG ==
    Map([output |-> Map(DefaultOutput),
         processing |-> Map(DefaultProcessing),
         filters |-> Map(DefaultFilters),
         logging |-> Map(DefaultLogging)])

\* The heap once the class body has run: the DEFAULT_CONFIG dict and its
\* four section dicts
InitHeap == Intern(<<>>, DEFAULT_CONFIG).h

\* The heap object that the class attribute DEFAULT_CONFIG names
DefaultRoot == Len(InitHeap)

-----------------------------------------------------------------------------
(* merge_config and _deep_merge *)

\* _deep_merge without the recursion into nested dicts (dict.update)
RECURSIVE deep_merge_as_update(_, _, _, _)
deep_merge_as_update(h, t, source, ks) ==
    IF ks = {} THEN h
    ELSE LET key == CHOOSE x \in ks : TRUE
             r == Intern(h, source[key])
         IN deep_merge_as_update(SetItem(r.h, t, key, r.val), t, source, ks \ {key})

\* _deep_merge that extends a list of the target by a list of the source
RECURSIVE _deep_merge(_, _, _, _)
deep_merge_extending_lists(h, t, source, ks) ==
    IF ks = {} THEN h
    ELSE LET key == CHOOSE x \in ks : TRUE
             value == source[key]
             h1 == IF key \in DOMAIN h[t] /\ IsDict(h[t][key]) /\ value.tag = "map"
                   THEN _deep_merge(h, h[t][key].v, value.v, DOMAIN value.v)
                   ELSE IF key \in DOMAIN h[t] /\ IsList(h[t][key]) /\ IsList(value)
                        THEN SetItem(h, t, key, List(h[t][key].v \o value.v))
                        ELSE LET r == Intern(h, value)
                             IN SetItem(r.h, t, key, r.val)
         IN _deep_merge(h1, t, source, ks \ {key})

\* _deep_merge(target, source) where target is heap object t and ks are the
\* keys of source still to be visited
_deep_merge(h, t, source, ks) ==
    IF ks = {} THEN h
    ELSE LET key == CHOOSE x \in ks : TRUE
             value == source[key]
             h1 == IF key \in DOMAIN h[t] /\ IsDict(h[t][key]) /\ value.tag = "map"
                   THEN _deep_merge(h, h[t][key].v, value.v, DOMAIN value.v)
                   ELSE LET r == Intern(h, value)
                        IN SetItem(r.h, t, key, r.val)
         IN _deep_merge(h1, t, source, ks \ {key})

\* merge_config(config_dict) on the instance whose self.config is heap object
\* root: source.items() needs a dict
merge_config(h, root, config_dict) ==
    IF config_dict.tag = "map"
    THEN [h |-> _deep_merge(h, root, config_dict.v, DOMAIN config_dict.v),
          err |-> "none"]
    ELSE [h |-> h, err |-> "AttributeError"]

-----------------------------------------------------------------------------
(* load_from_file *)

\* What open() and yaml.safe_load() make of a path
NoFile == [kind |-> "none", doc |-> Null]
Unreadable == [kind |-> "OSError", doc |-> Null]
Malformed == [kind |-> "YAMLError", doc |-> Null]
Doc(x) == [kind |-> "doc", doc |-> x]

load_from_file(h, root, config_file) ==
    IF config_file.kind \in {"OSError", "YAMLError"}
    THEN [h |-> h, err |-> "ConfigurationError"]
    ELSE IF Truthy(config_file.doc)
         THEN merge_config(h, root, config_file.doc)
         ELSE [h |-> h, err |-> "none"]

-----------------------------------------------------------------------------
(* validate *)

\* x[k] for a value x and a string k
GetItem(h, x, k) ==
    IF IsDict(x)
    THEN IF k \in DOMAIN h[x.v]
         THEN [err |-> "none", val |-> h[x.v][k]]
         ELSE [err |-> "KeyError", val |-> Null]
    ELSE [err |-> "TypeError", val |-> Null]

\* self.config[section][param]
Field(h, root, section, param) ==
    LET s == GetItem(h, Ref(root), section)
    IN IF s.err # "none" THEN s ELSE GetItem(h, s.val, param)

\* "if not <test>: raise ConfigurationError" on a field
Require(f, test) ==
    IF f.err # "none" THEN f.err
    ELSE IF test THEN "pass" ELSE "ConfigurationError"

\* "if x is not None and not isinstance(x, (int, float)): raise"
NumberOrNone(f) == Require(f, f.val.tag = "null" \/ IsIntOrFloat(f.val))

\* "if not lo <= x <= hi: raise" (lo < x when strict); comparing an int with
\* None, a str, a list or a dict raises TypeError
InRange(f, lo, strict, hi) ==
    IF f.err # "none" THEN f.err
    ELSE IF ~IsIntOrFloat(f.val) THEN "TypeError"
    ELSE IF (IF strict THEN lo < NumVal(f.val) ELSE lo <= NumVal(f.val))
            /\ NumVal(f.val) <= hi
         THEN "pass" ELSE "ConfigurationError"

OutputFormats == {"png", "jpg", "jpeg", "tiff", "bmp"}
valid_log_levels == {"DEBUG", "INFO", "WARNING", "ERROR", "CRITICAL"}

\* The statements of validate in program order
CheckOrder ==
    <<"directory", "maintain_structure", "format",
      "min_width", "min_height", "quality",
      "max_width", "max_height",
      "quality_range", "scaling", "deduplicate", "similarity_threshold",
      "include_types", "exclude_types", "level">>

\* The outcome of one statement: "pass" or the exception it raises
Check(h, root, c) ==
    CASE c = "directory" ->
           LET f == Field(h, root, "output", "directory") IN Require(f, IsStr(f.val))
      [] c = "maintain_structure" ->
           LET f == Field(h, root, "output", "maintain_structure") IN Require(f, IsBool(f.val))
      [] c = "format" ->
           LET f == Field(h, root, "output", "format")
           IN Require(f, InStrList(f.val, OutputFormats))
      [] c \in {"min_width", "min_height", "quality", "max_width", "max_height"} ->
           NumberOrNone(Field(h, root, "processing", c))
      [] c = "quality_range" ->
           InRange(Field(h, root, "processing", "quality"), 0, FALSE, 100 * 100)
      [] c = "scaling" ->
           InRange(Field(h, root, "processing", "scaling"), 0, TRUE, 10 * 100)
      [] c = "deduplicate" ->
           LET f == Field(h, root, "processing", "deduplicate") IN Require(f, IsBool(f.val))
      [] c = "similarity_threshold" ->
           InRange(Field(h, root, "processing", "similarity_threshold"), 0, FALSE, 1 * 100)
      [] c = "include_types" ->
           LET f == Field(h, root, "filters", "include_types") IN Require(f, IsList(f.val))
      [] c = "exclude_types" ->
           LET f == Field(h, root, "filters", "exclude_types") IN Require(f, IsList(f.val))
      [] c = "level" ->
           LET f == Field(h, root, "logging", "level")
           IN Require(f, InStrList(f.val, valid_log_levels))

\* [err, at]: the first statement from position n on that raises, and what
RECURSIVE ValidateFrom(_, _, _)
ValidateFrom(h, root, n) ==
    IF n > Len(CheckOrder) THEN [err |-> "none", at |-> "end"]
    ELSE LET r == Check(h, root, CheckOrder[n])
         IN IF r = "pass" THEN ValidateFrom(h, root, n + 1)
            ELSE [err |-> r, at |-> CheckOrder[n]]

validate(h, root) == ValidateFrom(h, root, 1)

-----------------------------------------------------------------------------
(* get and set *)

\* key.split('.'): a dotted key is a sequence of tokens, "." or a name; no
\* two names are adjacent
RECURSIVE SplitFrom(_, _, _)
SplitFrom(toks, cur, acc) ==
    IF toks = <<>> THEN Append(acc, cur)
    ELSE IF Head(toks) = "." THEN SplitFrom(Tail(toks), "", Append(acc, cur))
         ELSE SplitFrom(Tail(toks), Head(toks), acc)

Split(key) == SplitFrom(key, "", <<>>)

\* the loop of get without its isinstance(value, dict) test: "k in value"
\* and value[k] on a value that is no dict
RECURSIVE GetWalk(_, _, _, _)
GetWalkNoDictTest(h, value, keys, default) ==
    IF keys = <<>> THEN [err |-> "none", val |-> value]
    ELSE IF ~IsDict(value) THEN [err |-> "TypeError", val |-> Null]
    ELSE IF Head(keys) \in DOMAIN h[value.v]
         THEN GetWalk(h, h[value.v][Head(keys)], Tail(keys), default)
         ELSE [err |-> "none", val |-> default]

\* the loop of get over the remaining segments
GetWalk(h, value, keys, default) ==
    IF keys = <<>> THEN [err |-> "none", val |-> value]
    ELSE IF IsDict(value) /\ Head(keys) \in DOMAIN h[value.v]
         THEN GetWalk(h, h[value.v][Head(keys)], Tail(keys), default)
         ELSE [err |-> "none", val |-> default]

get(h, root, key, default) == GetWalk(h, Ref(root), Split(key), default)

\* the loop of set without "if k not in config: config[k] = {}"
RECURSIVE SetWalk(_, _, _, _)
SetWalkNoCreate(h, config, keys, value) ==
    IF ~IsDict(config) THEN [h |-> h, err |-> "TypeError"]
    ELSE IF Len(keys) = 1
         THEN LET r == Intern(h, value)
              IN [h |-> SetItem(r.h, config.v, keys[1], r.val), err |-> "none"]
         ELSE IF Head(keys) \notin DOMAIN h[config.v]
              THEN [h |-> h, err |-> "KeyError"]
              ELSE SetWalk(h, h[config.v][Head(keys)], Tail(keys), value)

\* the loop of set and its final assignment; "k not in config", config[k] and
\* config[k] = x all raise TypeError when config is not a dict (for a str or
\* a list, whichever of the test and the subscript is reached)
SetWalk(h, config, keys, value) ==
    IF ~IsDict(config) THEN [h |-> h, err |-> "TypeError"]
    ELSE IF Len(keys) = 1
         THEN LET r == Intern(h, value)
              IN [h |-> SetItem(r.h, config.v, keys[1], r.val), err |-> "none"]
         ELSE LET k == Head(keys)
                  h1 == IF k \notin DOMAIN h[config.v]
                        THEN SetItem(Append(h, EmptyDict), config.v, k, Ref(Len(h) + 1))
                        ELSE h
              IN SetWalk(h1, h1[config.v][k], Tail(keys), value)

set(h, root, key, value) == SetWalk(h, Ref(root), Split(key), value)

-----------------------------------------------------------------------------
(* __init__, get_default_config_path, load_default *)

\* __init__ with the two merges in the other order
ConstructDictFirst(h, config_dict, config_file) ==
    LET root == Len(h) + 1
        h0 == Append(h, h[DefaultRoot])
        r1 == IF Truthy(config_dict)
              THEN merge_config(h0, root, config_dict)
              ELSE [h |-> h0, err |-> "none"]
        r2 == IF config_file.kind # "none"
              THEN load_from_file(r1.h, root, config_file)
              ELSE r1
    IN IF r1.err # "none" THEN [h |-> r1.h, err |-> r1.err, root |-> root]
       ELSE IF r2.err # "none" THEN [h |-> r2.h, err |-> r2.err, root |-> root]
       ELSE [h |-> r2.h, err |-> validate(r2.h, root).err, root |-> root]

\* Configuration(config_dict, config_file): [h, err, root]; root is the new
\* object's self.config
Construct(h, config_dict, config_file) ==
    LET root == Len(h) + 1
        h0 == Append(h, h[DefaultRoot])
        r1 == IF config_file.kind # "none"
              THEN load_from_file(h0, root, config_file)
              ELSE [h |-> h0, err |-> "none"]
        r2 == IF Truthy(config_dict)
              THEN merge_config(r1.h, root, config_dict)
              ELSE r1
        v == validate(r2.h, root)
    IN IF r1.err # "none" THEN [h |-> r1.h, err |-> r1.err, root |-> root]
       ELSE IF r2.err # "none" THEN [h |-> r2.h, err |-> r2.err, root |-> root]
       ELSE [h |-> r2.h, err |-> v.err, root |-> root]

\* get_default_config_path looking in the current directory first
local_config_first(home, local) ==
    IF local THEN "local_config"
    ELSE IF home THEN "home_config"
    ELSE "default_config.yaml"

\* home, local: whether ~/.pdfimages/config.yaml and ./pdfimages.yaml exist
get_default_config_path(home, local) ==
    IF home THEN "home_config"
    ELSE IF local THEN "local_config"
    ELSE "default_config.yaml"

\* default_path.exists(): a path the resolver found exists
PathExists(default_path, packaged) ==
    IF default_path = "default_config.yaml" THEN packaged ELSE TRUE

\* packaged: whether the packaged default_config.yaml exists; config_file:
\* what reading the resolved path gives
load_default(h, home, local, packaged, config_file) ==
    LET default_path == get_default_config_path(home, local)
        exists == PathExists(default_path, packaged)
        r == Construct(h, Null, config_file)
    IN IF exists /\ r.err = "none" THEN r
       ELSE Construct(IF exists THEN r.h ELSE h, Null, NoFile)

-----------------------------------------------------------------------------
(* The inputs the callers of the model pass *)

\* {section: {param: x}}
One(section, param, x) == Map(section :> Map(param :> x))

FormatJpg == One("output", "format", Str("jpg"))
FormatInvalid == One("output", "format", Str("invalid"))
QualityNone == One("processing", "quality", Null)
\* the override trees of test_validation
QualityHigh == One("processing", "quality", Whole(101))
ScalingZero == One("processing", "scaling", Whole(0))
SimilarityHigh == One("processing", "similarity_threshold", Num(150))
LevelInvalid == One("logging", "level", Str("INVALID"))
DpiStr == One("processing", "dpi", Str("abc"))
OutputScalar == Map("output" :> Whole(5))
FormatMap == One("output", "format", Map("x" :> Whole(1)))
NewSection == Map("a" :> Map("b" :> Whole(1)))
\* custom_config of test_merge_with_dict
CustomConfig ==
    Map("output" :> Map("directory" :> Str("custom_output") @@ "format" :> Str("jpg"))
        @@ "processing" :> Map("quality" :> Whole(80)))

\* an override that holds a list
ExcludeThumbnails == One("filters", "exclude_types", List(<<Str("thumbnails")>>))

\* config_dict arguments of merge_config
MergeDicts ==
    {FormatJpg, FormatInvalid, QualityNone, DpiStr, OutputScalar, FormatMap,
     NewSection, CustomConfig, QualityHigh, ScalingZero, SimilarityHigh,
     LevelInvalid, ExcludeThumbnails}

\* config_dict arguments of the constructor (None: not given)
InitDicts == {Null, FormatJpg, QualityNone}

\* config_file arguments of the constructor (NoFile: not given)
InitFiles == {NoFile, Doc(FormatInvalid)}

\* what reading the file passed to load_from_file gives
Files ==
    {Unreadable, Malformed, Doc(Null), Doc(List(<<Str("a")>>)), Doc(FormatInvalid)}

\* what reading the file that load_default resolved gives
DefaultFiles == {Unreadable, Doc(Null), Doc(FormatInvalid)}

\* <<home, local, packaged>>: which of the three candidate files exist when
\* load_default runs
FileSystems ==
    {<<FALSE, FALSE, FALSE>>, <<FALSE, FALSE, TRUE>>,
     <<FALSE, TRUE, FALSE>>, <<TRUE, TRUE, TRUE>>}

\* dotted keys, tokenised
SetKeys ==
    {<<"output", ".", "new_option">>, <<"a", ".", "b", ".", "c">>,
     <<"output", ".", "format", ".", "x">>, <<"output">>}

GetKeys ==
    {<<"output", ".", "directory">>, <<"no", ".", "such", ".", "key">>,
     <<"output", ".", "format", ".", "x">>, <<"output">>}

\* values passed to set
SetValues == {Whole(42), Map(EmptyDict)}

\* defaults passed to get
GetDefaults == {Null, Str("fallback")}

-----------------------------------------------------------------------------
(* The state machine *)

Called(op, i, err, ret, args) ==
    [op |-> op, i |-> i, err |-> err, ret |-> ret, args |-> args,
     again |-> (last.op = op /\ last.i = i /\ last.args = args)]

\* The program has run the class body and then A = Configuration() and
\* B = Configuration(): each self.config is DEFAULT_CONFIG.copy(), a new
\* top-level dict holding the section dicts of DEFAULT_CONFIG
Init ==
    /\ heap = InitHeap \o <<InitHeap[DefaultRoot], InitHeap[DefaultRoot]>>
    /\ inst = [i \in Insts |-> IF i = "A" THEN DefaultRoot + 1 ELSE DefaultRoot + 2]
    /\ last = [op |-> "init", i |-> "", err |-> "none", ret |-> Null, args |-> <<>>,
               again |-> FALSE]
    /\ steps = 0

\* i = Configuration(config_dict, config_file); a failed construction binds
\* nothing
DoConstruct(i, config_dict, config_file) ==
    /\ steps < MaxSteps
    /\ LET r == Construct(heap, config_dict, config_file)
       IN /\ heap' = r.h
          /\ inst' = IF r.err = "none" THEN [inst EXCEPT ![i] = r.root] ELSE inst
          /\ last' = Called("construct", i, r.err, Null, <<config_dict, config_file>>)
    /\ steps' = steps + 1

\* i = Configuration.load_default()
DoLoadDefault(i, home, local, packaged, config_file) ==
    /\ steps < MaxSteps
    /\ config_file = NoFile <=> ~PathExists(get_default_config_path(home, local), packaged)
    /\ LET r == load_default(heap, home, local, packaged, config_file)
       IN /\ heap' = r.h
          /\ inst' = IF r.err = "none" THEN [inst EXCEPT ![i] = r.root] ELSE inst
          /\ last' = Called("load_default", i, r.err, Null,
                            <<home, local, packaged, config_file>>)
    /\ steps' = steps + 1

\* Configuration.get_default_config_path()
DoGetDefaultConfigPath(home, local, packaged) ==
    /\ steps < MaxSteps
    /\ last' = Called("get_default_config_path", "", "none",
                      Str(get_default_config_path(home, local)),
                      <<home, local, packaged>>)
    /\ steps' = steps + 1
    /\ UNCHANGED <<heap, inst>>

\* i.merge_config(config_dict)
DoMergeConfig(i, config_dict) ==
    /\ steps < MaxSteps
    /\ LET r == merge_config(heap, inst[i], config_dict)
       IN /\ heap' = r.h
          /\ last' = Called("merge_config", i, r.err, Null, <<config_dict>>)
    /\ steps' = steps + 1
    /\ UNCHANGED inst

\* i.load_from_file(config_file)
DoLoadFromFile(i, config_file) ==
    /\ steps < MaxSteps
    /\ LET r == load_from_file(heap, inst[i], config_file)
       IN /\ heap' = r.h
          /\ last' = Called("load_from_file", i, r.err, Null, <<config_file>>)
    /\ steps' = steps + 1
    /\ UNCHANGED inst

\* i.validate()
DoValidate(i) ==
    /\ steps < MaxSteps
    /\ last' = Called("validate", i, validate(heap, inst[i]).err, Null, <<>>)
    /\ steps' = steps + 1
    /\ UNCHANGED <<heap, inst>>

\* i.get(key, default)
DoGet(i, key, default) ==
    /\ steps < MaxSteps
    /\ LET r == get(heap, inst[i], key, default)
       IN last' = Called("get", i, r.err, r.val, <<key, default>>)
    /\ steps' = steps + 1
    /\ UNCHANGED <<heap, inst>>

\* i.set(key, value)
DoSet(i, key, value) ==
    /\ steps < MaxSteps
    /\ LET r == set(heap, inst[i], key, value)
       IN /\ heap' = r.h
          /\ last' = Called("set", i, r.err, Null, <<key, value>>)
    /\ steps' = steps + 1
    /\ UNCHANGED inst

Next ==
    \/ \E i \in Insts, d \in InitDicts, f \in InitFiles : DoConstruct(i, d, f)
    \/ \E i \in Insts, fs \in FileSystems, f \in DefaultFiles \cup {NoFile} :
          DoLoadDefault(i, fs[1], fs[2], fs[3], f)
    \/ \E home, local, packaged \in BOOLEAN : DoGetDefaultConfigPath(home, local, packaged)
    \/ \E i \in Insts, d \in MergeDicts : DoMergeConfig(i, d)
    \/ \E i \in Insts, f \in Files : DoLoadFromFile(i, f)
    \/ \E i \in Insts : DoValidate(i)
    \/ \E i \in Insts, k \in GetKeys, x \in GetDefaults : DoGet(i, k, x)
    \/ \E i \in Insts, k \in SetKeys, x \in SetValues : DoSet(i, k, x)

Spec == Init /\ [][Next]_vars

-----------------------------------------------------------------------------
(* Trees, as the specification speaks of them *)

\* The Effective Configuration of instance i
Effective(i) == Tree(heap, Ref(inst[i]))

\* The deep overlay of mapping s on mapping t
RECURSIVE Overlay(_, _)
Overlay(t, s) ==
    Map([k \in DOMAIN t.v \cup DOMAIN s.v |->
           IF k \notin DOMAIN s.v THEN t.v[k]
           ELSE IF k \in DOMAIN t.v /\ t.v[k].tag = "map" /\ s.v[k].tag = "map"
                THEN Overlay(t.v[k], s.v[k])
                ELSE s.v[k]])

\* The node of tree t at the path of segments p, d when the path leaves t
RECURSIVE Lookup(_, _, _)
Lookup(t, p, d) ==
    IF p = <<>> THEN t
    ELSE IF t.tag = "map" /\ Head(p) \in DOMAIN t.v
         THEN Lookup(t.v[Head(p)], Tail(p), d)
         ELSE d

\* Every segment of p before the last is absent from t or holds a mapping
RECURSIVE IntermediatesAreMappings(_, _)
IntermediatesAreMappings(t, p) ==
    \/ Len(p) <= 1
    \/ Head(p) \notin DOMAIN t.v
    \/ /\ t.v[Head(p)].tag = "map"
       /\ IntermediatesAreMappings(t.v[Head(p)], Tail(p))

\* The <<path, value>> pairs of the values of tree t that are not mappings
RECURSIVE Leaves(_, _)
Leaves(t, p) ==
    IF t.tag = "map"
    THEN UNION {Leaves(t.v[k], Append(p, k)) : k \in DOMAIN t.v}
    ELSE {<<p, t>>}

\* A value no tree of the model holds
Absent == Str("<absent>")

\* The field of tree t at section.param
At(t, section, param) == Lookup(t, <<section, param>>, Absent)

IsNumber(x) == x.tag = "num"
NumberBetween(x, lo, hi) == IsNumber(x) /\ lo <= x.v /\ x.v <= hi
NumberAboveUpTo(x, lo, hi) == IsNumber(x) /\ lo < x.v /\ x.v <= hi

\* The invariants the data model states for a validated tree
WellFormed(t) ==
    /\ InStrList(At(t, "output", "format"), OutputFormats)
    /\ InStrList(At(t, "logging", "level"), valid_log_levels)
    /\ NumberBetween(At(t, "processing", "quality"), 0, 100 * 100)
    /\ NumberAboveUpTo(At(t, "processing", "scaling"), 0, 10 * 100)
    /\ NumberBetween(At(t, "processing", "similarity_threshold"), 0, 1 * 100)
    /\ \A p \in {"min_width", "min_height", "max_width", "max_height"} :
          IsNumber(At(t, "processing", p)) \/ At(t, "processing", p) = Null
    /\ IsNumber(At(t, "processing", "dpi"))
    /\ IsNumber(At(t, "filters", "min_size_bytes"))
    /\ IsNumber(At(t, "filters", "max_size_bytes")) \/ At(t, "filters", "max_size_bytes") = Null
    /\ IsList(At(t, "filters", "include_types"))
    /\ IsList(At(t, "filters", "exclude_types"))

-----------------------------------------------------------------------------
(* The claims *)

\* C1: the default template DEFAULT_CONFIG, every nested section included,
\* holds its original values in every reachable state.
C1_DefaultTemplateNeverMutated == Tree(heap, Ref(DefaultRoot)) = DEFAULT_CONFIG

\* C2: a Configuration constructed with no file and no override tree, at any
\* point of the program, is constructed without error and equals the
\* original defaults in every field.
C2_PlainConstructionIsDefault ==
    (last.op = "construct" /\ last.args = <<Null, NoFile>>)
        => (last.err = "none" /\ Effective(last.i) = DEFAULT_CONFIG)

\* C3: a merge_config, load_from_file or set call on one instance leaves the
\* tree of every other instance, hence every B.get(k), unchanged.
C3_InstancesShareNoState ==
    [][\A j \in Insts :
          (last'.op \in {"merge_config", "load_from_file", "set"} /\ last'.i # j)
              => Tree(heap', Ref(inst'[j])) = Tree(heap, Ref(inst[j]))]_vars

\* C4: merge_config(source) leaves the instance with the deep overlay of
\* source on its previous tree: mappings on both sides are merged
\* recursively, any other pairing is replaced by the source's value, and
\* keys the source does not mention keep their value at every level.
C4_MergeIsDeepOverlay ==
    [][last'.op = "merge_config"
          => /\ last'.err = "none"
             /\ Tree(heap', Ref(inst'[last'.i]))
                  = Overlay(Tree(heap, Ref(inst[last'.i])), last'.args[1])]_vars

\* C4 witness: {output: {format: "jpg"}} was merged and only output.format
\* differs from the defaults.
C4_Witness ==
    /\ last.op = "merge_config"
    /\ last.args = <<FormatJpg>>
    /\ Effective(last.i) = Overlay(DEFAULT_CONFIG, FormatJpg)
    /\ At(Effective(last.i), "output", "format") = Str("jpg")
    /\ At(Effective(last.i), "output", "directory") = Str("extracted_images")

\* The inputs of load_default for which the resolve-load-validate chain
\* fails in every state: no file, an unreadable or malformed one, or one
\* whose output.format is invalid
ChainFails(config_file) ==
    config_file \in {NoFile, Unreadable, Malformed, Doc(FormatInvalid)}

\* C5: load_default never raises, and when a step of the chain fails the
\* Configuration it returns is built from the default schema alone.
C5_LoadDefaultNeverRaises ==
    last.op = "load_default"
        => /\ last.err = "none"
           /\ ChainFails(last.args[4]) => Effective(last.i) = DEFAULT_CONFIG

\* C6: direct construction and an explicit validate call end normally or in
\* ConfigurationError, never in another kind of error.
C6_OnlyConfigurationError ==
    last.op \in {"construct", "validate"}
        => last.err \in {"none", "ConfigurationError"}

\* C7: whenever validate returns normally (also at the end of a successful
\* construction) the tree satisfies the invariants of the data model.
C7_ValidatedTreeIsWellFormed ==
    (last.op \in {"construct", "validate"} /\ last.err = "none")
        => WellFormed(Effective(last.i))

\* C8: when the intermediate segments of the key are absent or mappings,
\* set(key, v) completes and a following get(key) returns v.
C8_SetThenGet ==
    [][(/\ last'.op = "set"
        /\ IntermediatesAreMappings(Tree(heap, Ref(inst[last'.i])), Split(last'.args[1])))
          => /\ last'.err = "none"
             /\ get(heap', inst'[last'.i], last'.args[1], Absent).err = "none"
             /\ Tree(heap', get(heap', inst'[last'.i], last'.args[1], Absent).val)
                  = last'.args[2]]_vars

\* C8 witness: set("a.b.c", 42) was called and get("a.b.c") is 42.
C8_Witness ==
    /\ last.op = "set"
    /\ last.args = << <<"a", ".", "b", ".", "c">>, Whole(42) >>
    /\ last.err = "none"
    /\ get(heap, inst[last.i], <<"a", ".", "b", ".", "c">>, Null).val = Whole(42)

\* C9: get(key, default) never raises; it returns default as soon as a
\* segment is absent or an intermediate node is not a mapping, and the node
\* at the final segment otherwise.
C9_GetNeverRaises ==
    /\ \A i \in Insts :
          LET t == Effective(i)
          IN \A k \in GetKeys \cup SetKeys, d \in GetDefaults :
                LET r == get(heap, inst[i], k, d)
                IN /\ r.err = "none"
                   /\ Tree(heap, r.val) = Lookup(t, Split(k), d)
    /\ last.op = "get"
          => /\ last.err = "none"
             /\ Tree(heap, last.ret)
                  = Lookup(Effective(last.i), Split(last.args[1]), last.args[2])

\* C9 witness: get("output.format.x", "fallback") met the string at
\* output.format and returned the default.
C9_Witness ==
    /\ last.op = "get"
    /\ last.args = << <<"output", ".", "format", ".", "x">>, Str("fallback") >>
    /\ At(Effective(last.i), "output", "format").tag = "str"
    /\ last.err = "none"
    /\ last.ret = Str("fallback")

\* What construction from the tree base of the defaults must build
Merged(base, config_dict, config_file) ==
    LET withFile == IF config_file.kind = "doc" /\ Truthy(config_file.doc)
                    THEN Overlay(base, config_file.doc) ELSE base
    IN IF Truthy(config_dict) THEN Overlay(withFile, config_dict) ELSE withFile

\* No file is given, or the file is read and holds a mapping or nothing
Loads(config_file) ==
    \/ config_file.kind = "none"
    \/ config_file.kind = "doc" /\ config_file.doc.tag \in {"map", "null"}

\* C10: construction merges the file first and the explicit tree second and
\* validates once, after both: the new tree is the explicit tree overlaid
\* on the file overlaid on the defaults, every value the explicit tree sets
\* is the value of the field, and the outcome is that of validating the
\* final tree.
C10_FileThenDictThenValidate ==
    [][(last'.op = "construct" /\ Loads(last'.args[2]))
          => LET built == Tree(heap', Ref(Len(heap) + 1))
             IN /\ built = Merged(Tree(heap, Ref(DefaultRoot)), last'.args[1], last'.args[2])
                /\ Truthy(last'.args[1])
                      => \A l \in Leaves(last'.args[1], <<>>) :
                            Lookup(built, l[1], Absent) = l[2]
                /\ last'.err = validate(heap', Len(heap) + 1).err]_vars

\* C10 witness: the file set output.format to "invalid", the explicit tree
\* set it to "jpg", and construction succeeded with "jpg".
C10_Witness ==
    /\ last.op = "construct"
    /\ last.args = <<FormatJpg, Doc(FormatInvalid)>>
    /\ last.err = "none"
    /\ At(Effective(last.i), "output", "format") = Str("jpg")

\* C11: merging the same override tree a second time changes nothing: a
\* fresh default instance after merge_config(t); merge_config(t) holds the
\* tree it held after the first merge_config(t).
C11_MergeIsIdempotent ==
    [][(/\ last.op = "merge_config"
        /\ last'.op = "merge_config"
        /\ last'.again)
          => /\ last'.err = "none"
             /\ Tree(heap', Ref(inst'[last'.i])) = Tree(heap, Ref(inst[last'.i]))]_vars

\* C11 witness: the override holding a list was merged twice in a row into
\* an instance made from the defaults, which holds the tree of one merge.
C11_Witness ==
    /\ last.op = "merge_config"
    /\ last.again
    /\ last.args = <<ExcludeThumbnails>>
    /\ Effective(last.i) = Overlay(DEFAULT_CONFIG, ExcludeThumbnails)

\* C12: get_default_config_path returns the per-user path whenever that
\* file exists (also when the local file exists), the local path when only
\* the local file exists, and the packaged-default path when neither
\* exists, whether or not the packaged file is on disk.
C12_PathPrecedence ==
    last.op = "get_default_config_path"
        => LET home == last.args[1]
               local == last.args[2]
           IN /\ last.err = "none"
              /\ home => last.ret = Str("home_config")
              /\ (~home /\ local) => last.ret = Str("local_config")
              /\ (~home /\ ~local) => last.ret = Str("default_config.yaml")

\* C12 witness: both the per-user and the local file exist, the packaged
\* file does not, and the per-user path was returned.
C12_Witness ==
    /\ last.op = "get_default_config_path"
    /\ last.args = <<TRUE, TRUE, FALSE>>
    /\ last.ret = Str("home_config")

\* C12 witness of the last resort: no candidate exists, the packaged file
\* is not on disk, and the packaged-default path was returned.
C12_WitnessNoneExists ==
    /\ last.op = "get_default_config_path"
    /\ last.args = <<FALSE, FALSE, FALSE>>
    /\ last.ret = Str("default_config.yaml")

\* The tree t with value x put at the path of segments p, where every node
\* on the way that is absent or no mapping is replaced by an empty mapping
RECURSIVE PutPath(_, _, _)
PutPath(t, p, x) ==
    LET base == IF t.tag = "map" THEN t.v ELSE EmptyDict
        child == IF Head(p) \in DOMAIN base THEN base[Head(p)] ELSE Map(EmptyDict)
    IN IF Len(p) = 1 THEN Map(SetKey(base, Head(p), x))
       ELSE Map(SetKey(base, Head(p), PutPath(child, Tail(p), x)))

\* C13: when an intermediate segment of the key holds a value that is no
\* mapping, set replaces that node by a fresh empty mapping, assigns the
\* value at the final segment and completes without raising, so that get
\* of the key returns the value.
C13_SetReplacesNonMapping ==
    [][(/\ last'.op = "set"
        /\ ~IntermediatesAreMappings(Tree(heap, Ref(inst[last'.i])), Split(last'.args[1])))
          => /\ last'.err = "none"
             /\ Tree(heap', Ref(inst'[last'.i]))
                  = PutPath(Tree(heap, Ref(inst[last'.i])), Split(last'.args[1]), last'.args[2])
             /\ Tree(heap', get(heap', inst'[last'.i], last'.args[1], Absent).val)
                  = last'.args[2]]_vars

\* The number, in the fixed order of the twelve checks, of the check that a
\* statement of validate belongs to
CheckNumber(c) ==
    CASE c = "directory" -> 1
      [] c = "maintain_structure" -> 2
      [] c = "format" -> 3
      [] c \in {"min_width", "min_height", "quality"} -> 4
      [] c \in {"max_width", "max_height"} -> 5
      [] c = "quality_range" -> 6
      [] c = "scaling" -> 7
      [] c = "deduplicate" -> 8
      [] c = "similarity_threshold" -> 9
      [] c = "include_types" -> 10
      [] c = "exclude_types" -> 11
      [] c = "level" -> 12
      [] OTHER -> 0

NumberOrNull(x) == IsNumber(x) \/ x = Null

\* The checks, by number, that tree t violates
ViolatedChecks(t) ==
    {n \in 1..12 :
       CASE n = 1 -> ~IsStr(Lookup(t, <<"output", "directory">>, Null))
         [] n = 2 -> ~IsBool(At(t, "output", "maintain_structure"))
         [] n = 3 -> ~InStrList(Lookup(t, <<"output", "format">>, Null), OutputFormats)
         [] n = 4 -> \E p \in {"min_width", "min_height", "quality"} :
                        ~NumberOrNull(At(t, "processing", p))
         [] n = 5 -> \E p \in {"max_width", "max_height"} :
                        ~NumberOrNull(At(t, "processing", p))
         [] n = 6 -> ~NumberBetween(At(t, "processing", "quality"), 0, 100 * 100)
         [] n = 7 -> ~NumberAboveUpTo(At(t, "processing", "scaling"), 0, 10 * 100)
         [] n = 8 -> ~IsBool(At(t, "processing", "deduplicate"))
         [] n = 9 -> ~NumberBetween(At(t, "processing", "similarity_threshold"), 0, 1 * 100)
         [] n = 10 -> ~IsList(At(t, "filters", "include_types"))
         [] n = 11 -> ~IsList(At(t, "filters", "exclude_types"))
         [] n = 12 -> ~InStrList(Lookup(t, <<"logging", "level">>, Null), valid_log_levels)}

\* The earliest of a non-empty set of check numbers
Earliest(S) == CHOOSE n \in S : \A m \in S : n <= m

\* C14: validate is fail-fast in the fixed order of the twelve checks: on a
\* tree that violates several checks it raises the ConfigurationError of the
\* earliest violated check, and it changes nothing in the tree.
C14_ValidateFailsFastInOrder ==
    [][/\ \A i \in Insts :
            LET violated == ViolatedChecks(Tree(heap', Ref(inst'[i])))
                r == validate(heap', inst'[i])
            IN Cardinality(violated) >= 2
                  => /\ r.err = "ConfigurationError"
                     /\ CheckNumber(r.at) = Earliest(violated)
       /\ last'.op = "validate" => (heap' = heap /\ inst' = inst)]_vars

====
